---------------------------- MODULE Spec2Model ----------------------------
(***************************************************************************)
(* gitnifty: the Git facade class.  A facade method composes one           *)
(* invocation string, hands it to child_process.exec through runCommand,   *)
(* and settles its promise from the exec callback (error, stdout, stderr). *)
(*                                                                         *)
(* Text is modelled as a sequence of one-character strings, so that        *)
(* joining, trimming, quoting and searching are computed character by      *)
(* character as the JavaScript string methods compute them.                *)
(***************************************************************************)
EXTENDS Integers, Sequences, FiniteSets, TLC

VARIABLES
    options,      \* the argument `new Git(options)` was called with
    constructed,  \* TRUE when `new Git(options)` returned an instance
    cwd,          \* the instance's private field this.cwd
    calls,        \* per caller slot: the facade call made from it and its promise
    procs         \* per caller slot: the exec() subprocesses of that call, in spawn order

vars == << options, constructed, cwd, calls, procs >>

(***************************************************************************)
(* Bounds of the model.                                                    *)
(***************************************************************************)
MaxCalls == 2   \* facade calls that can be in flight together
MaxLen == 3     \* longest stdout / stderr text the runner reports
MaxList == 2    \* longest flag or path list a caller passes

CallIds == 1 .. MaxCalls

(***************************************************************************)
(* String literals of the source.                                          *)
(***************************************************************************)
CMD_GET_USER_NAME ==
    << "g", "i", "t", " ", "c", "o", "n", "f", "i", "g", " ", "u", "s", "e",
       "r", ".", "n", "a", "m", "e" >>

PRE_SET_USER_NAME ==
    << "g", "i", "t", " ", "c", "o", "n", "f", "i", "g", " ", "-", "-", "g",
       "l", "o", "b", "a", "l", " ", "u", "s", "e", "r", ".", "n", "a", "m",
       "e", " ", "\"" >>

SUF_SET_USER_NAME ==
    << "\"", " " >>

CMD_GET_USER_EMAIL ==
    << "g", "i", "t", " ", "c", "o", "n", "f", "i", "g", " ", "u", "s", "e",
       "r", ".", "e", "m", "a", "i", "l" >>

PRE_SET_USER_EMAIL ==
    << "g", "i", "t", " ", "c", "o", "n", "f", "i", "g", " ", "-", "-", "g",
       "l", "o", "b", "a", "l", " ", "u", "s", "e", "r", ".", "e", "m", "a",
       "i", "l", " ", "\"" >>

CMD_DIFF_QUIET ==
    << "g", "i", "t", " ", "d", "i", "f", "f", " ", "-", "-", "q", "u", "i",
       "e", "t" >>

CMD_DIFF_CACHED_QUIET ==
    << "g", "i", "t", " ", "d", "i", "f", "f", " ", "-", "-", "c", "a", "c",
       "h", "e", "d", " ", "-", "-", "q", "u", "i", "e", "t" >>

CMD_UPSTREAM ==
    << "g", "i", "t", " ", "r", "e", "v", "-", "p", "a", "r", "s", "e", " ",
       "-", "-", "a", "b", "b", "r", "e", "v", "-", "r", "e", "f", " ", "-",
       "-", "s", "y", "m", "b", "o", "l", "i", "c", "-", "f", "u", "l", "l",
       "-", "n", "a", "m", "e", " ", "@", "{", "u", "}" >>

CMD_CURRENT_BRANCH ==
    << "g", "i", "t", " ", "r", "e", "v", "-", "p", "a", "r", "s", "e", " ",
       "-", "-", "a", "b", "b", "r", "e", "v", "-", "r", "e", "f", " ", "H",
       "E", "A", "D" >>

CMD_BRANCH_R ==
    << "g", "i", "t", " ", "b", "r", "a", "n", "c", "h", " ", "-", "r" >>

LIT_ORIGIN_HEAD ==
    << "o", "r", "i", "g", "i", "n", "/", "H", "E", "A", "D" >>

LIT_HEAD_PREFIX ==
    << "o", "r", "i", "g", "i", "n", "/", "H", "E", "A", "D", " ", "-", ">",
       " ", "o", "r", "i", "g", "i", "n", "/" >>

LIT_MAIN ==
    << "m", "a", "i", "n" >>

PRE_ADD ==
    << "g", "i", "t", " ", "a", "d", "d", " " >>

LIT_GIT_RESET ==
    << "g", "i", "t", " ", "r", "e", "s", "e", "t" >>

LIT_GIT_RESTORE ==
    << "g", "i", "t", " ", "r", "e", "s", "t", "o", "r", "e" >>

PRE_COMMIT ==
    << "g", "i", "t", " ", "c", "o", "m", "m", "i", "t", " ", "-", "m", " ",
       "\"" >>

CMD_INIT ==
    << "g", "i", "t", " ", "i", "n", "i", "t" >>

PRE_CLONE ==
    << "g", "i", "t", " ", "c", "l", "o", "n", "e", " " >>

LIT_ORIGIN ==
    << "o", "r", "i", "g", "i", "n" >>

PRE_PUSH ==
    << "g", "i", "t", " ", "p", "u", "s", "h", " " >>

PRE_TAG ==
    << "g", "i", "t", " ", "t", "a", "g", " " >>

PRE_MERGE ==
    << "g", "i", "t", " ", "m", "e", "r", "g", "e", " " >>

PRE_CHECKOUT ==
    << "g", "i", "t", " ", "c", "h", "e", "c", "k", "o", "u", "t", " " >>

LIT_GIT_BRANCH ==
    << "g", "i", "t", " ", "b", "r", "a", "n", "c", "h" >>

LIT_ERROR_PREFIX ==
    << "E", "r", "r", "o", "r", " ", "e", "x", "e", "c", "u", "t", "i", "n",
       "g", " ", "c", "o", "m", "m", "a", "n", "d", ":", " " >>

(***************************************************************************)
(* JavaScript values a caller can pass: undefined, a string, or an array   *)
(* of strings.                                                             *)
(***************************************************************************)
Undef == [k |-> "undef", s |-> << >>, a |-> << >>]
Str(t) == [k |-> "str", s |-> t, a |-> << >>]
Arr(l) == [k |-> "arr", s |-> << >>, a |-> l]

\* Boolean(v): undefined and "" are falsy, every array (also []) is truthy
Truthy(v) ==
    CASE v.k = "undef" -> FALSE
      [] v.k = "str" -> v.s # << >>
      [] v.k = "arr" -> TRUE

isArray(v) == v.k = "arr"

\* a parameter default `p = d` applies exactly when the argument is undefined
Default(v, d) == IF v.k = "undef" THEN d ELSE v

\* Array.prototype.join on an array of strings
RECURSIVE join(_, _)
join(l, sep) ==
    IF l = << >> THEN << >>
    ELSE IF Len(l) = 1 THEN l[1]
    ELSE l[1] \o sep \o join(Tail(l), sep)

\* [...].filter(Boolean) on an array of values
filterBoolean(l) == SelectSeq(l, Truthy)

\* the strings of an array of string values
strings(l) == [i \in 1 .. Len(l) |-> l[i].s]

\* the characters String.prototype.trim removes (those that occur in the model)
WhiteSpace == {" ", "\t", "\n", "\r"}

RECURSIVE trimStart(_)
trimStart(s) ==
    IF s = << >> THEN s
    ELSE IF Head(s) \in WhiteSpace THEN trimStart(Tail(s))
    ELSE s

RECURSIVE trimEnd(_)
trimEnd(s) ==
    IF s = << >> THEN s
    ELSE IF s[Len(s)] \in WhiteSpace THEN trimEnd(SubSeq(s, 1, Len(s) - 1))
    ELSE s

\* faulty variant of trim: strips the leading whitespace only
trimLeadingOnly(s) == trimStart(s)

\* String.prototype.trim
trim(s) == trimEnd(trimStart(s))

\* String.prototype.indexOf: 0-based position of the first occurrence, -1 if none
indexOf(s, sub) ==
    LET hits == {i \in 0 .. (Len(s) - Len(sub)) : SubSeq(s, i + 1, i + Len(sub)) = sub}
    IN  IF hits = {} THEN -1 ELSE CHOOSE i \in hits : \A j \in hits : i <= j

\* String.prototype.includes
includes(s, sub) == indexOf(s, sub) # -1

\* String.prototype.replace with a string pattern: the first occurrence only
replace(s, pat, rep) ==
    LET i == indexOf(s, pat)
    IN  IF i = -1 THEN s
        ELSE SubSeq(s, 1, i) \o rep \o SubSeq(s, i + Len(pat) + 1, Len(s))

\* faulty variant of the escaping: replace without the g flag, which escapes
\* the first double quote only
RECURSIVE escapeFirstQuote(_)
escapeFirstQuote(s) ==
    IF s = << >> THEN << >>
    ELSE IF Head(s) = "\"" THEN << "\\", "\"" >> \o Tail(s)
    ELSE << Head(s) >> \o escapeFirstQuote(Tail(s))

\* message.replace(/"/g, '\\"'): every double quote becomes backslash, quote
RECURSIVE escapeQuotes(_)
escapeQuotes(s) ==
    IF s = << >> THEN << >>
    ELSE (IF Head(s) = "\"" THEN << "\\", "\"" >> ELSE << Head(s) >>)
            \o escapeQuotes(Tail(s))

\* String.prototype.split("\n")
RECURSIVE split(_)
split(s) ==
    LET i == indexOf(s, << "\n" >>)
    IN  IF i = -1 THEN << s >>
        ELSE << SubSeq(s, 1, i) >> \o split(SubSeq(s, i + 2, Len(s)))

\* Array.prototype.find: the first element that satisfies the test, else undefined
findHead(lines) ==
    LET hits == {i \in 1 .. Len(lines) : includes(lines[i], LIT_ORIGIN_HEAD)}
    IN  IF hits = {} THEN Undef
        ELSE Str(lines[CHOOSE i \in hits : \A j \in hits : i <= j])

(***************************************************************************)
(* The invocation string each facade method composes.                      *)
(***************************************************************************)
\* faulty variant of setUserName: no space after the closing quote
setUserNameCmdNoTrailingSpace(name) == PRE_SET_USER_NAME \o name.s \o << "\"" >>

setUserNameCmd(name) == PRE_SET_USER_NAME \o name.s \o SUF_SET_USER_NAME

setUserEmailCmd(email) == PRE_SET_USER_EMAIL \o email.s \o << "\"" >>

\* faulty variant of add: no default for an omitted path
addCmdNoDefault(path0) ==
    LET path == Default(path0, Str(<< >>))
        normalizedPath == IF isArray(path) THEN join(path.a, << " " >>) ELSE path.s
    IN  PRE_ADD \o normalizedPath \o << " " >>

addCmd(path0) ==
    LET path == Default(path0, Str(<< "." >>))
        normalizedPath == IF isArray(path) THEN join(path.a, << " " >>) ELSE path.s
    IN  PRE_ADD \o normalizedPath \o << " " >>

\* faulty variant of reset: the flag is placed after the hash
resetCmdFlagLast(hashValue, flag) ==
    LET parts == filterBoolean(<< Str(LIT_GIT_RESET), hashValue, flag >>)
    IN  join(strings(parts), << " " >>)

resetCmd(hashValue, flag) ==
    LET parts == filterBoolean(<< Str(LIT_GIT_RESET), flag, hashValue >>)
    IN  join(strings(parts), << " " >>)

\* faulty variant of restore: the targets are joined in reverse order
restoreCmdReversed(target0, flag) ==
    LET target == Default(target0, Str(<< "." >>))
        normalizedTarget ==
            IF isArray(target)
            THEN join([i \in 1 .. Len(target.a) |-> target.a[Len(target.a) + 1 - i]],
                      << " " >>)
            ELSE target.s
        flagPart == IF Truthy(flag) THEN << " " >> \o flag.s ELSE << >>
    IN  LIT_GIT_RESTORE \o flagPart \o << " " >> \o normalizedTarget

restoreCmd(target0, flag) ==
    LET target == Default(target0, Str(<< "." >>))
        normalizedTarget == IF isArray(target) THEN join(target.a, << " " >>) ELSE target.s
        flagPart == IF Truthy(flag) THEN << " " >> \o flag.s ELSE << >>
    IN  LIT_GIT_RESTORE \o flagPart \o << " " >> \o normalizedTarget

\* faulty variant of commit: the flags are placed before -m
commitCmdFlagsFirst(message, flags) ==
    LET flagsPart ==
            IF Truthy(flags)
            THEN IF isArray(flags) THEN << " " >> \o join(flags.a, << " " >>)
                 ELSE << " " >> \o flags.s
            ELSE << >>
    IN  << "g", "i", "t", " ", "c", "o", "m", "m", "i", "t" >> \o flagsPart
            \o << " ", "-", "m", " ", "\"" >> \o escapeQuotes(message.s) \o << "\"" >>

commitCmd(message, flags) ==
    LET flagsPart ==
            IF Truthy(flags)
            THEN IF isArray(flags) THEN << " " >> \o join(flags.a, << " " >>)
                 ELSE << " " >> \o flags.s
            ELSE << >>
    IN  PRE_COMMIT \o escapeQuotes(message.s) \o << "\"" >> \o flagsPart

cloneCmd(url, dir0) ==
    LET dir == Default(dir0, Str(<< >>))
    IN  PRE_CLONE \o url.s \o << " " >> \o dir.s

\* faulty variant of the resolution: a flag list as first argument does not
\* stop the second argument from being taken as the branch
pushResolveKeepsBranch(remote0, branch0, flags0) ==
    LET remote == Default(remote0, Str(LIT_ORIGIN))
        branch == Default(branch0, Str(<< >>))
        flags == Default(flags0, Arr(<< >>))
    IN  IF isArray(remote)
        THEN [finalRemote |-> LIT_ORIGIN, finalBranch |-> branch.s, finalFlags |-> remote.a]
        ELSE IF isArray(branch)
        THEN [finalRemote |-> remote.s, finalBranch |-> << >>, finalFlags |-> branch.a]
        ELSE [finalRemote |-> remote.s, finalBranch |-> branch.s,
              finalFlags |-> IF isArray(flags) THEN flags.a
                             ELSE strings(filterBoolean(<< flags >>))]

\* push: the canonical {remote, branch, flags} its three positional arguments resolve to
pushResolve(remote0, branch0, flags0) ==
    LET remote == Default(remote0, Str(LIT_ORIGIN))
        branch == Default(branch0, Str(<< >>))
        flags == Default(flags0, Arr(<< >>))
    IN  IF isArray(remote)
        THEN [finalRemote |-> LIT_ORIGIN, finalBranch |-> << >>, finalFlags |-> remote.a]
        ELSE IF isArray(branch)
        THEN [finalRemote |-> remote.s, finalBranch |-> << >>, finalFlags |-> branch.a]
        ELSE [finalRemote |-> remote.s, finalBranch |-> branch.s,
              finalFlags |-> IF isArray(flags) THEN flags.a
                             ELSE strings(filterBoolean(<< flags >>))]

pushCmd(remote0, branch0, flags0) ==
    LET r == pushResolve(remote0, branch0, flags0)
        flagStr == IF Len(r.finalFlags) # 0
                   THEN join(r.finalFlags, << " " >>) \o << " " >>
                   ELSE << >>
        branchRef == IF r.finalBranch # << >>
                     THEN r.finalRemote \o << " " >> \o r.finalBranch
                     ELSE r.finalRemote
    IN  PRE_PUSH \o flagStr \o branchRef

\* faulty variant of the flag prefix: a single flag is not followed by a space
flagStrOfNoSpace(flags) ==
    IF Truthy(flags)
    THEN IF isArray(flags) THEN join(flags.a, << " " >>) \o << " " >>
         ELSE flags.s
    ELSE << >>

\* the flag prefix shared by tag, merge and checkout
flagStrOf(flags) ==
    IF Truthy(flags)
    THEN IF isArray(flags) THEN join(flags.a, << " " >>) \o << " " >>
         ELSE flags.s \o << " " >>
    ELSE << >>

tagCmd(value, flags) == PRE_TAG \o flagStrOf(flags) \o value.s

mergeCmd(branchName, flags) == PRE_MERGE \o flagStrOf(flags) \o branchName.s

checkoutCmd(target, flags) == PRE_CHECKOUT \o flagStrOf(flags) \o target.s

\* faulty variant of branch: the parts are joined without filter(Boolean)
branchCmdUnfiltered(name, flags0) ==
    LET flags == Default(flags0, Arr(<< >>))
        flagArr == IF isArray(flags) THEN flags.a
                   ELSE IF Truthy(flags) THEN << flags.s >> ELSE << >>
        parts == << Str(LIT_GIT_BRANCH) >>
                    \o [i \in 1 .. Len(flagArr) |-> Str(flagArr[i])]
                    \o << name >>
    IN  join(strings(parts), << " " >>)

\* faulty variant of branch: the name is placed before the flags
branchCmdNameFirst(name, flags0) ==
    LET flags == Default(flags0, Arr(<< >>))
        flagArr == IF isArray(flags) THEN flags.a
                   ELSE IF Truthy(flags) THEN << flags.s >> ELSE << >>
        parts == filterBoolean(<< Str(LIT_GIT_BRANCH), name >>
                                \o [i \in 1 .. Len(flagArr) |-> Str(flagArr[i])])
    IN  join(strings(parts), << " " >>)

branchCmd(name, flags0) ==
    LET flags == Default(flags0, Arr(<< >>))
        flagArr == IF isArray(flags) THEN flags.a
                   ELSE IF Truthy(flags) THEN << flags.s >> ELSE << >>
        parts == filterBoolean(<< Str(LIT_GIT_BRANCH) >>
                                \o [i \in 1 .. Len(flagArr) |-> Str(flagArr[i])]
                                \o << name >>)
    IN  join(strings(parts), << " " >>)

\* faulty variant of the inference: the name is not trimmed after the replace
inferDefaultBranchUntrimmed(branches) ==
    LET defaultBranch == findHead(split(branches))
    IN  IF Truthy(defaultBranch)
        THEN replace(defaultBranch.s, LIT_HEAD_PREFIX, << >>)
        ELSE LIT_MAIN

\* getDefaultBranchName: the branch inferred from the listing of `git branch -r`
inferDefaultBranch(branches) ==
    LET defaultBranch == findHead(split(branches))
    IN  IF Truthy(defaultBranch)
        THEN trim(replace(defaultBranch.s, LIT_HEAD_PREFIX, << >>))
        ELSE LIT_MAIN

(***************************************************************************)
(* The instance: constructor(options).                                     *)
(***************************************************************************)
ProcessCwd == << "/", "p" >>    \* what process.cwd() returns
RepoPath == << "/", "r" >>      \* a path a caller configures

NoOptions == [given |-> FALSE, cwd |-> Undef]   \* new Git()
Options(c) == [given |-> TRUE, cwd |-> c]       \* new Git({ cwd: c })

OptionsSet == {NoOptions, Options(Undef), Options(Str(<< >>)), Options(Str(RepoPath))}

\* this.cwd = options.cwd || process.cwd(); reading .cwd of undefined throws
constructor(opts) ==
    IF ~opts.given
    THEN [threw |-> TRUE, cwd |-> << >>]
    ELSE [threw |-> FALSE,
          cwd |-> IF Truthy(opts.cwd) THEN opts.cwd.s ELSE ProcessCwd]

(***************************************************************************)
(* Promises and what they settle with.                                     *)
(***************************************************************************)
NoValue == [k |-> "none", text |-> << >>, bool |-> FALSE]
Text(t) == [k |-> "text", text |-> t, bool |-> FALSE]      \* a string
Bool(b) == [k |-> "bool", text |-> << >>, bool |-> b]      \* a boolean
This == [k |-> "this", text |-> << >>, bool |-> FALSE]     \* the instance itself
Err(m) == [k |-> "error", text |-> m, bool |-> FALSE]      \* new Error(m)

Pending == [state |-> "pending", value |-> NoValue]
Resolved(v) == [state |-> "resolved", value |-> v]
Rejected(v) == [state |-> "rejected", value |-> v]

\* the runner's error argument: null, or an ExecException with a message
Null == [null |-> TRUE, message |-> << >>]
ExecException(m) == [null |-> FALSE, message |-> m]

\* faulty variant of the spawn: the subprocess runs in the directory of the
\* calling process, not in this.cwd
execInProcessCwd(cmd) ==
    [cmd |-> cmd, cwd |-> ProcessCwd, running |-> TRUE,
     error |-> Null, stdout |-> << >>, stderr |-> << >>,
     promise |-> Pending]

\* exec(cmd, { cwd: this.cwd }, callback): a subprocess that has not exited yet
exec(cmd) ==
    [cmd |-> cmd, cwd |-> cwd, running |-> TRUE,
     error |-> Null, stdout |-> << >>, stderr |-> << >>,
     promise |-> Pending]

\* faulty variant of the callback: text on standard error counts as a failure
runCommandCallbackOnStderr(p, error, stdout, stderr) ==
    [p EXCEPT !.running = FALSE, !.error = error,
              !.stdout = stdout, !.stderr = stderr,
              !.promise = IF ~error.null \/ stderr # << >>
                          THEN Rejected(Err(LIT_ERROR_PREFIX \o p.cmd \o << "\n" >> \o stderr))
                          ELSE Resolved(Text(trim(stdout)))]

\* faulty variant of the callback: the diagnostic carries the runner's error
\* message in place of the subprocess's standard-error text
runCommandCallbackErrorMessage(p, error, stdout, stderr) ==
    [p EXCEPT !.running = FALSE, !.error = error,
              !.stdout = stdout, !.stderr = stderr,
              !.promise = IF ~error.null
                          THEN Rejected(Err(LIT_ERROR_PREFIX \o p.cmd \o << "\n" >>
                                                \o error.message))
                          ELSE Resolved(Text(trim(stdout)))]

\* the exec callback of runCommand: settles the promise runCommand returned
runCommandCallback(p, error, stdout, stderr) ==
    [p EXCEPT !.running = FALSE, !.error = error,
              !.stdout = stdout, !.stderr = stderr,
              !.promise = IF ~error.null
                          THEN Rejected(Err(LIT_ERROR_PREFIX \o p.cmd \o << "\n" >> \o stderr))
                          ELSE Resolved(Text(trim(stdout)))]

\* `return this.runCommand(...)`: the method's promise is runCommand's
returnRunCommand(r) == r

\* faulty variant of tryCommand: a probe that lets the failure through
tryCommandRethrow(r) ==
    IF r.state = "resolved" THEN Resolved(Bool(TRUE)) ELSE r

\* tryCommand: true when cmd() resolves, false when it rejects
tryCommand(r) ==
    IF r.state = "resolved" THEN Resolved(Bool(TRUE)) ELSE Resolved(Bool(FALSE))

\* faulty variant: the method hands back runCommand's text
awaitReturnText(r) == r

\* `await this.runCommand(...); return this;`
awaitReturnThis(r) ==
    IF r.state = "resolved" THEN Resolved(This) ELSE r

\* faulty variant: a failing listing is swallowed and answered with "main"
getDefaultBranchNameResultFallback(r) ==
    IF r.state = "resolved"
    THEN Resolved(Text(inferDefaultBranch(r.value.text)))
    ELSE Resolved(Text(LIT_MAIN))

\* getDefaultBranchName after `await this.runCommand("git branch -r")`
getDefaultBranchNameResult(r) ==
    IF r.state = "resolved"
    THEN Resolved(Text(inferDefaultBranch(r.value.text)))
    ELSE r

\* faulty variant: `||` in place of `&&`
isWorkingDirCleanResultOr(unstagedClean, stagedClean) ==
    Resolved(Bool(unstagedClean \/ stagedClean))

\* isWorkingDirClean: `return unstagedClean && stagedClean`
isWorkingDirCleanResult(unstagedClean, stagedClean) ==
    Resolved(Bool(unstagedClean /\ stagedClean))

Probes == {"hasNoUnstagedChanges", "hasNoStagedChanges", "hasUpstreamBranch"}
SelfReturning == {"commit", "init", "clone", "push", "checkout"}
TextReturning ==
    {"getUserName", "setUserName", "getUserEmail", "setUserEmail",
     "getCurrentBranchName", "add", "reset", "restore", "tag", "merge", "branch"}
NonProbes == TextReturning \cup SelfReturning \cup {"getDefaultBranchName"}
Methods == NonProbes \cup Probes \cup {"isWorkingDirClean"}

\* faulty variant: push is treated as a text-returning method
methodResultPushText(m, r) ==
    CASE m \in Probes -> tryCommand(r)
      [] m \in SelfReturning \ {"push"} -> awaitReturnThis(r)
      [] m = "getDefaultBranchName" -> getDefaultBranchNameResult(r)
      [] OTHER -> returnRunCommand(r)

\* what a single-command method's promise settles with, given runCommand's promise
methodResult(m, r) ==
    CASE m \in Probes -> tryCommand(r)
      [] m \in SelfReturning -> awaitReturnThis(r)
      [] m = "getDefaultBranchName" -> getDefaultBranchNameResult(r)
      [] OTHER -> returnRunCommand(r)

(***************************************************************************)
(* State.                                                                  *)
(***************************************************************************)
Idle ==
    [method |-> "", args |-> << >>, promise |-> [state |-> "idle", value |-> NoValue],
     pc |-> "", unstagedClean |-> FALSE, rest |-> << >>]

Init ==
    \E o \in OptionsSet :
        LET git == constructor(o)
        IN  /\ options = o
            /\ constructed = ~git.threw
            /\ cwd = git.cwd
            /\ calls = [c \in CallIds |-> Idle]
            /\ procs = [c \in CallIds |-> << >>]

(***************************************************************************)
(* A facade call: the synchronous part of the method, up to and including  *)
(* the exec() of its (first) command.  Each caller slot makes one call; a  *)
(* method that takes arguments looks at the slot before it goes through    *)
(* them.                                                                   *)
(***************************************************************************)
Invoke(c, m, args, cmd, pc) ==
    /\ constructed
    /\ calls[c].promise.state = "idle"
    /\ calls' = [calls EXCEPT ![c] =
                    [method |-> m, args |-> args, promise |-> Pending,
                     pc |-> pc, unstagedClean |-> FALSE, rest |-> << >>]]
    /\ procs' = [procs EXCEPT ![c] = << exec(cmd) >>]
    /\ UNCHANGED << options, constructed, cwd >>

getUserName(c) == Invoke(c, "getUserName", << >>, CMD_GET_USER_NAME, "await")

setUserName(c, D) ==
    /\ calls[c].promise.state = "idle"
    /\ \E name \in D.val :
           Invoke(c, "setUserName", << name >>, setUserNameCmd(name), "await")

getUserEmail(c) == Invoke(c, "getUserEmail", << >>, CMD_GET_USER_EMAIL, "await")

setUserEmail(c, D) ==
    /\ calls[c].promise.state = "idle"
    /\ \E email \in D.val :
           Invoke(c, "setUserEmail", << email >>, setUserEmailCmd(email), "await")

hasNoUnstagedChanges(c) ==
    Invoke(c, "hasNoUnstagedChanges", << >>, CMD_DIFF_QUIET, "await")

hasNoStagedChanges(c) ==
    Invoke(c, "hasNoStagedChanges", << >>, CMD_DIFF_CACHED_QUIET, "await")

\* isWorkingDirClean starts with `await this.hasNoUnstagedChanges()`
isWorkingDirClean(c) ==
    Invoke(c, "isWorkingDirClean", << >>, CMD_DIFF_QUIET, "unstaged")

hasUpstreamBranch(c) == Invoke(c, "hasUpstreamBranch", << >>, CMD_UPSTREAM, "await")

getCurrentBranchName(c) ==
    Invoke(c, "getCurrentBranchName", << >>, CMD_CURRENT_BRANCH, "await")

getDefaultBranchName(c) ==
    Invoke(c, "getDefaultBranchName", << >>, CMD_BRANCH_R, "await")

add(c, D) ==
    /\ calls[c].promise.state = "idle"
    /\ \E path \in D.any : Invoke(c, "add", << path >>, addCmd(path), "await")

reset(c, D) ==
    /\ calls[c].promise.state = "idle"
    /\ \E hashValue \in D.str, flag \in D.optstr :
           Invoke(c, "reset", << hashValue, flag >>, resetCmd(hashValue, flag), "await")

restore(c, D) ==
    /\ calls[c].promise.state = "idle"
    /\ \E target \in D.any, flag \in D.optstr :
           Invoke(c, "restore", << target, flag >>, restoreCmd(target, flag), "await")

commit(c, D) ==
    /\ calls[c].promise.state = "idle"
    /\ \E message \in D.msg, flags \in D.any :
           Invoke(c, "commit", << message, flags >>, commitCmd(message, flags), "await")

init(c) == Invoke(c, "init", << >>, CMD_INIT, "await")

clone(c, D) ==
    /\ calls[c].promise.state = "idle"
    /\ \E url \in D.str, dir \in D.optstr :
           Invoke(c, "clone", << url, dir >>, cloneCmd(url, dir), "await")

push(c, D) ==
    /\ calls[c].promise.state = "idle"
    /\ \E remote \in D.any, branch \in D.any, flags \in D.any :
           Invoke(c, "push", << remote, branch, flags >>,
                  pushCmd(remote, branch, flags), "await")

tag(c, D) ==
    /\ calls[c].promise.state = "idle"
    /\ \E value \in D.str, flags \in D.any :
           Invoke(c, "tag", << value, flags >>, tagCmd(value, flags), "await")

merge(c, D) ==
    /\ calls[c].promise.state = "idle"
    /\ \E branchName \in D.str, flags \in D.any :
           Invoke(c, "merge", << branchName, flags >>, mergeCmd(branchName, flags), "await")

checkout(c, D) ==
    /\ calls[c].promise.state = "idle"
    /\ \E target \in D.str, flags \in D.any :
           Invoke(c, "checkout", << target, flags >>, checkoutCmd(target, flags), "await")

branch(c, D) ==
    /\ calls[c].promise.state = "idle"
    /\ \E name \in D.optstr, flags \in D.any :
           Invoke(c, "branch", << name, flags >>, branchCmd(name, flags), "await")

\* the calls of the methods that resolve to the instance, each with the
\* invocation it composes
Steps(D) ==
    {[method |-> "init", args |-> << >>, cmd |-> CMD_INIT]}
        \cup {[method |-> "clone", args |-> << url, dir >>, cmd |-> cloneCmd(url, dir)] :
                    url \in D.str, dir \in D.optstr}
        \cup {[method |-> "checkout", args |-> << target, flags >>,
               cmd |-> checkoutCmd(target, flags)] : target \in D.str, flags \in D.any}
        \cup {[method |-> "commit", args |-> << message, flags >>,
               cmd |-> commitCmd(message, flags)] : message \in D.msg, flags \in D.any}
        \cup {[method |-> "push", args |-> << remote0, branch0, flags0 >>,
               cmd |-> pushCmd(remote0, branch0, flags0)] :
                    remote0 \in D.any, branch0 \in D.any, flags0 \in D.any}

\* a caller chains calls on the instance each one yields, as in
\* git.init().then(g => g.checkout(...)).then(g => g.commit(...)): the first
\* method runs now, the others are held in the reactions
chain(c, D, n) ==
    \E k \in 2 .. n : \E steps \in [1 .. k -> Steps(D)] :
        /\ constructed
        /\ calls[c].promise.state = "idle"
        /\ calls' = [calls EXCEPT ![c] =
                        [method |-> steps[1].method, args |-> steps[1].args,
                         promise |-> Pending, pc |-> "then",
                         unstagedClean |-> FALSE, rest |-> Tail(steps)]]
        /\ procs' = [procs EXCEPT ![c] = << exec(steps[1].cmd) >>]
        /\ UNCHANGED << options, constructed, cwd >>

(***************************************************************************)
(* The exec callback: the subprocess of call c has exited and the runner   *)
(* reports (error, stdout, stderr).  The promise reactions it triggers run *)
(* before any other callback, so they are part of the same step.           *)
(***************************************************************************)
\* faulty variant: after a failed command a single-command method spawns a
\* recovery command before it settles
continuationRetry(call, r) ==
    CASE call.pc = "unstaged" ->
            [call |-> [call EXCEPT !.pc = "staged",
                                   !.unstagedClean = tryCommand(r).value.bool],
             spawn |-> << CMD_DIFF_CACHED_QUIET >>]
      [] call.pc = "staged" ->
            [call |-> [call EXCEPT !.pc = "done",
                                   !.promise = isWorkingDirCleanResult(
                                                   call.unstagedClean,
                                                   tryCommand(r).value.bool)],
             spawn |-> << >>]
      [] call.pc = "await" /\ r.state = "rejected" ->
            [call |-> [call EXCEPT !.pc = "retried"],
             spawn |-> << CMD_INIT >>]
      [] OTHER ->
            [call |-> [call EXCEPT !.pc = "done",
                                   !.promise = methodResult(call.method, r)],
             spawn |-> << >>]

\* faulty variant: isWorkingDirClean answers false as soon as the unstaged
\* probe fails, without running the staged probe
continuationShortCircuit(call, r) ==
    CASE call.pc = "unstaged" /\ r.state = "rejected" ->
            [call |-> [call EXCEPT !.pc = "done", !.promise = Resolved(Bool(FALSE))],
             spawn |-> << >>]
      [] call.pc = "unstaged" /\ r.state # "rejected" ->
            [call |-> [call EXCEPT !.pc = "staged", !.unstagedClean = TRUE],
             spawn |-> << CMD_DIFF_CACHED_QUIET >>]
      [] call.pc = "staged" ->
            [call |-> [call EXCEPT !.pc = "done",
                                   !.promise = isWorkingDirCleanResult(
                                                   call.unstagedClean,
                                                   tryCommand(r).value.bool)],
             spawn |-> << >>]
      [] OTHER ->
            [call |-> [call EXCEPT !.pc = "done",
                                   !.promise = methodResult(call.method, r)],
             spawn |-> << >>]

\* faulty variant: a chained call goes on to its next step after a failed one
continuationChainOn(call, r) ==
    CASE call.pc = "unstaged" ->
            [call |-> [call EXCEPT !.pc = "staged",
                                   !.unstagedClean = tryCommand(r).value.bool],
             spawn |-> << CMD_DIFF_CACHED_QUIET >>]
      [] call.pc = "staged" ->
            [call |-> [call EXCEPT !.pc = "done",
                                   !.promise = isWorkingDirCleanResult(
                                                   call.unstagedClean,
                                                   tryCommand(r).value.bool)],
             spawn |-> << >>]
      [] call.pc = "then" ->
            LET own == methodResult(call.method, r)
            IN  IF call.rest # << >>
                THEN [call |-> [call EXCEPT !.method = Head(call.rest).method,
                                            !.args = Head(call.rest).args,
                                            !.rest = Tail(call.rest)],
                      spawn |-> << Head(call.rest).cmd >>]
                ELSE [call |-> [call EXCEPT !.pc = "chained", !.promise = own],
                      spawn |-> << >>]
      [] OTHER ->
            [call |-> [call EXCEPT !.pc = "done",
                                   !.promise = methodResult(call.method, r)],
             spawn |-> << >>]

\* what runs once the runCommand promise r of a pending call has settled:
\* the rest of the method, and the command it spawns next (if any)
continuation(call, r) ==
    CASE call.pc = "unstaged" ->
            \* const unstagedClean = await this.hasNoUnstagedChanges();
            \* then this.hasNoStagedChanges() is called
            [call |-> [call EXCEPT !.pc = "staged",
                                   !.unstagedClean = tryCommand(r).value.bool],
             spawn |-> << CMD_DIFF_CACHED_QUIET >>]
      [] call.pc = "staged" ->
            \* const stagedClean = await ...; return unstagedClean && stagedClean
            [call |-> [call EXCEPT !.pc = "done",
                                   !.promise = isWorkingDirCleanResult(
                                                   call.unstagedClean,
                                                   tryCommand(r).value.bool)],
             spawn |-> << >>]
      [] call.pc = "then" ->
            \* the method's own promise settles; its reaction calls the next
            \* method on the instance it resolved to, a rejection skips the rest
            LET own == methodResult(call.method, r)
            IN  IF own.state = "resolved" /\ call.rest # << >>
                THEN [call |-> [call EXCEPT !.method = Head(call.rest).method,
                                            !.args = Head(call.rest).args,
                                            !.rest = Tail(call.rest)],
                      spawn |-> << Head(call.rest).cmd >>]
                ELSE [call |-> [call EXCEPT !.pc = "chained", !.promise = own],
                      spawn |-> << >>]
      [] OTHER ->
            [call |-> [call EXCEPT !.pc = "done",
                                   !.promise = methodResult(call.method, r)],
             spawn |-> << >>]

\* faulty variant of the callback: a timer started with the call rejects it
\* while its subprocess is still running
ExecCallbackOrTimeout(c, O) ==
    /\ calls[c].promise.state = "pending"
    /\ procs[c] # << >>
    /\ procs[c][Len(procs[c])].running
    /\ \/ \E o \in O :
            LET n == Len(procs[c])
                p == runCommandCallback(procs[c][n], o.error, o.stdout, o.stderr)
                k == continuation(calls[c], p.promise)
            IN  /\ calls' = [calls EXCEPT ![c] = k.call]
                /\ procs' = [procs EXCEPT ![c] =
                                [@ EXCEPT ![n] = p]
                                    \o [i \in 1 .. Len(k.spawn) |-> exec(k.spawn[i])]]
       \/ /\ calls' = [calls EXCEPT ![c].pc = "done",
                                     ![c].promise = Rejected(Err(<< "t" >>))]
          /\ procs' = procs
    /\ UNCHANGED << options, constructed, cwd >>

\* faulty variant of the callback: resolve and reject are kept in one place
\* shared by all calls, so an exit settles the oldest call that is waiting
ExecCallbackShared(c, O) ==
    /\ calls[c].promise.state = "pending"
    /\ procs[c] # << >>
    /\ procs[c][Len(procs[c])].running
    /\ \E o \in O :
        LET n == Len(procs[c])
            p == runCommandCallback(procs[c][n], o.error, o.stdout, o.stderr)
            waiting == {d \in CallIds : calls[d].promise.state = "pending"}
            d == CHOOSE x \in waiting : \A y \in waiting : x <= y
            k == continuation(calls[d], p.promise)
        IN  /\ calls' = [calls EXCEPT ![d] = k.call]
            /\ procs' = [procs EXCEPT ![c] =
                            [@ EXCEPT ![n] = p]
                                \o [i \in 1 .. Len(k.spawn) |-> exec(k.spawn[i])]]
    /\ UNCHANGED << options, constructed, cwd >>

ExecCallback(c, O) ==
    /\ calls[c].promise.state = "pending"
    /\ procs[c] # << >>
    /\ procs[c][Len(procs[c])].running
    /\ \E o \in O :
        LET n == Len(procs[c])
            p == runCommandCallback(procs[c][n], o.error, o.stdout, o.stderr)
            k == continuation(calls[c], p.promise)
        IN  /\ calls' = [calls EXCEPT ![c] = k.call]
            /\ procs' = [procs EXCEPT ![c] =
                            [@ EXCEPT ![n] = p]
                                \o [i \in 1 .. Len(k.spawn) |-> exec(k.spawn[i])]]
    /\ UNCHANGED << options, constructed, cwd >>

(***************************************************************************)
(* Inputs.                                                                 *)
(***************************************************************************)
X == << "x" >>
F == << "-", "f" >>
Tokens == {X, F}

\* the sequences over S of length at most n
SeqsUpTo(S, n) == UNION {[1 .. k -> S] : k \in 0 .. n}

\* arguments of a caller that passes one fixed value everywhere
Plain ==
    [str |-> {Str(X)}, optstr |-> {Undef}, any |-> {Undef}, msg |-> {Str(X)},
     val |-> {Str(X)}]

\* the characters of free text (commit messages, configuration values): a
\* letter, the double quote, the backslash
MessageAlphabet == {"x", "\"", "\\"}

\* arguments of every shape the methods accept
Shapes ==
    LET strs == {Str(t) : t \in Tokens \cup {<< >>}}
    IN  [str |-> strs,
         optstr |-> {Undef} \cup strs,
         any |-> {Undef} \cup strs \cup {Arr(l) : l \in SeqsUpTo(Tokens, MaxList)},
         msg |-> {Str(m) : m \in SeqsUpTo(MessageAlphabet, MaxLen)},
         val |-> {Str(v) : v \in SeqsUpTo(MessageAlphabet, MaxLen)}]

Alphabet == {" ", "\n", "a"}
Texts == SeqsUpTo(Alphabet, MaxLen)
FewTexts == {<< >>, << "a" >>}
Failure == ExecException(<< "E" >>)

Outcome(e, out, err) == [error |-> e, stdout |-> out, stderr |-> err]

\* one successful and one failing run
FewOutcomes ==
    {Outcome(Null, << " ", "a", "\n" >>, << >>), Outcome(Failure, << >>, << "a" >>)}

\* every text on the channel the outcome's branch reads
AllOutcomes ==
    {Outcome(Null, out, err) : out \in Texts, err \in FewTexts}
        \cup {Outcome(Failure, out, err) : out \in FewTexts, err \in Texts}

Facade(c, D) ==
    \/ getUserName(c)
    \/ setUserName(c, D)
    \/ getUserEmail(c)
    \/ setUserEmail(c, D)
    \/ hasNoUnstagedChanges(c)
    \/ hasNoStagedChanges(c)
    \/ isWorkingDirClean(c)
    \/ hasUpstreamBranch(c)
    \/ getCurrentBranchName(c)
    \/ getDefaultBranchName(c)
    \/ add(c, D)
    \/ reset(c, D)
    \/ restore(c, D)
    \/ commit(c, D)
    \/ init(c)
    \/ clone(c, D)
    \/ push(c, D)
    \/ tag(c, D)
    \/ merge(c, D)
    \/ checkout(c, D)
    \/ branch(c, D)

\* concurrent callers, plain arguments, two outcomes
Next ==
    \E c \in CallIds :
        \/ Facade(c, Plain)
        \/ ExecCallback(c, FewOutcomes)

Spec == Init /\ [][Next]_vars

\* one caller, plain arguments, every outcome
NextOut ==
    \/ Facade(1, Plain)
    \/ ExecCallback(1, AllOutcomes)

SpecOut == Init /\ [][NextOut]_vars

\* one caller, arguments of every shape, two outcomes
NextArgs ==
    \/ Facade(1, Shapes)
    \/ ExecCallback(1, FewOutcomes)

SpecArgs == Init /\ [][NextArgs]_vars

(***************************************************************************)
(* Listings of `git branch -r`: texts put together from a few fragments.   *)
(***************************************************************************)
MaxParts == 5   \* most fragments in one listing

ListingParts ==
    {<< " " >>, << "\n" >>, << "a" >>,
     << "o", "r", "i", "g", "i", "n", "/", "H", "E", "A", "D" >>,
     << " ", "-", ">", " ", "o", "r", "i", "g", "i", "n", "/" >>}

RECURSIVE Flatten(_)
Flatten(parts) ==
    IF parts = << >> THEN << >> ELSE Head(parts) \o Flatten(Tail(parts))

Listings == {Flatten(parts) : parts \in SeqsUpTo(ListingParts, MaxParts)}

ListingOutcomes ==
    {Outcome(Null, l, << >>) : l \in Listings}
        \cup {Outcome(Failure, << >>, << "a" >>)}

\* one caller asking for the default branch, every listing
NextList ==
    \/ getDefaultBranchName(1)
    \/ ExecCallback(1, ListingOutcomes)

SpecList == Init /\ [][NextList]_vars

(***************************************************************************)
(* One caller whose subprocesses all exit in the end: the event loop runs  *)
(* the exec callback of a subprocess that is waited for.                   *)
(***************************************************************************)
NextLive ==
    \/ Facade(1, Plain)
    \/ ExecCallback(1, FewOutcomes)

SpecLive == Init /\ [][NextLive]_vars /\ WF_vars(ExecCallback(1, FewOutcomes))

(***************************************************************************)
(* One caller that chains up to MaxChain self-returning calls.             *)
(***************************************************************************)
MaxChain == 3   \* most calls in one chain

NextChain ==
    \/ chain(1, Plain, MaxChain)
    \/ ExecCallback(1, FewOutcomes)

SpecChain == Init /\ [][NextChain]_vars

(***************************************************************************)
(* Properties.                                                             *)
(***************************************************************************)
\* the subprocesses spawned so far, as << caller slot, position >>
Spawned == UNION {{<< c, n >> : n \in 1 .. Len(procs[c])} : c \in CallIds}
Proc(cn) == procs[cn[1]][cn[2]]
Exited == {cn \in Spawned : ~Proc(cn).running}

\* sub occurs in s as a contiguous run of characters
Contains(s, sub) ==
    \E i \in 0 .. Len(s) : i + Len(sub) <= Len(s) /\ SubSeq(s, i + 1, i + Len(sub)) = sub

\* v is s without its leading and trailing whitespace: s is a run of
\* whitespace, then v, then a run of whitespace, and v neither starts nor
\* ends with whitespace
IsStripped(v, s) ==
    \E i \in 0 .. Len(s) : \E j \in i .. Len(s) :
        /\ v = SubSeq(s, i + 1, j)
        /\ \A k \in 1 .. i : s[k] \in WhiteSpace
        /\ \A k \in (j + 1) .. Len(s) : s[k] \in WhiteSpace
        /\ v # << >> => (v[1] \notin WhiteSpace /\ v[Len(v)] \notin WhiteSpace)

\* C1: runCommand resolves if and only if the runner reports no error, and
\* the resolved value is the subprocess's standard output without its leading
\* and trailing whitespace, the interior whitespace unchanged.
C1_ResolvesWithTrimmedStdout ==
    \A cn \in Exited :
        LET p == Proc(cn)
        IN  /\ (p.promise.state = "resolved") <=> p.error.null
            /\ p.promise.state = "resolved" =>
                    /\ p.promise.value.k = "text"
                    /\ IsStripped(p.promise.value.text, p.stdout)

\* a run whose output lost surrounding whitespace, and a run whose output
\* kept the whitespace between two letters
C1_Witness ==
    /\ \E cn \in Exited :
            /\ Proc(cn).promise.state = "resolved"
            /\ Proc(cn).stdout = << " ", "a", "\n" >>
            /\ Proc(cn).promise.value.text = << "a" >>
    /\ \E cn \in Exited :
            /\ Proc(cn).promise.state = "resolved"
            /\ Proc(cn).promise.value.text = << "a", " ", "a" >>

\* C2: whenever the runner reports an error, runCommand rejects, and the
\* message of the rejection contains the complete invocation string and the
\* subprocess's standard-error text.
C2_RejectionNamesCommandAndStderr ==
    \A cn \in Exited :
        LET p == Proc(cn)
        IN  ~p.error.null =>
                /\ p.promise.state = "rejected"
                /\ p.promise.value.k = "error"
                /\ Contains(p.promise.value.text, p.cmd)
                /\ Contains(p.promise.value.text, p.stderr)

\* a failed run with a standard-error text of full length
C2_Witness ==
    \E cn \in Exited :
        /\ ~Proc(cn).error.null
        /\ Len(Proc(cn).stderr) = MaxLen
        /\ Proc(cn).promise.state = "rejected"

\* C3: a non-probe operation whose subprocess fails rejects with the
\* executor's diagnostic unchanged and spawns no further subprocess; a
\* failing listing is not turned into the fallback "main".
C3_HardFailurePropagates ==
    \A c \in CallIds :
        (/\ calls[c].method \in NonProbes
         /\ procs[c] # << >>
         /\ ~procs[c][1].running
         /\ ~procs[c][1].error.null)
        => /\ Len(procs[c]) = 1
           /\ calls[c].promise.state = "rejected"
           /\ calls[c].promise.value =
                Err(LIT_ERROR_PREFIX \o procs[c][1].cmd \o << "\n" >> \o procs[c][1].stderr)
           /\ calls[c].promise = procs[c][1].promise

\* getDefaultBranchName whose listing command failed
C3_Witness ==
    \E c \in CallIds :
        /\ calls[c].method = "getDefaultBranchName"
        /\ ~procs[c][1].running
        /\ ~procs[c][1].error.null
        /\ calls[c].promise.state = "rejected"

\* C4: a probe never rejects; it resolves to true exactly when its command
\* succeeds and to false exactly when the command fails, whatever was printed.
C4_ProbeIsBoolean ==
    \A c \in CallIds :
        calls[c].method \in Probes =>
            /\ calls[c].promise.state # "rejected"
            /\ ~procs[c][1].running =>
                    calls[c].promise = Resolved(Bool(procs[c][1].error.null))

\* a probe whose command failed with a standard-error text
C4_Witness ==
    \E c \in CallIds :
        /\ calls[c].method \in Probes
        /\ ~procs[c][1].running
        /\ ~procs[c][1].error.null
        /\ procs[c][1].stderr # << >>
        /\ calls[c].promise = Resolved(Bool(FALSE))

\* C5: isWorkingDirClean never rejects and resolves to true if and only if
\* both the unstaged and the staged probe succeeded.
C5_CleanIffBothProbes ==
    \A c \in CallIds :
        calls[c].method = "isWorkingDirClean" =>
            /\ calls[c].promise.state # "rejected"
            /\ (Len(procs[c]) = 2 /\ ~procs[c][2].running) =>
                    calls[c].promise =
                        Resolved(Bool(procs[c][1].error.null /\ procs[c][2].error.null))
            /\ calls[c].promise.state = "resolved" =>
                    (Len(procs[c]) = 2 /\ ~procs[c][2].running)

\* the unstaged probe succeeded, the staged probe failed, the answer is false
C5_Witness ==
    \E c \in CallIds :
        /\ calls[c].method = "isWorkingDirClean"
        /\ Len(procs[c]) = 2
        /\ procs[c][1].error.null
        /\ ~procs[c][2].running
        /\ ~procs[c][2].error.null
        /\ calls[c].promise = Resolved(Bool(FALSE))

\* the subprocesses of caller slot c that have not exited
Running(c) == {n \in 1 .. Len(procs[c]) : procs[c][n].running}

\* C6 as stated: every call of every facade method issues at most one
\* subprocess over its whole lifetime.
C6_AtMostOneSubprocess ==
    \A c \in CallIds : Len(procs[c]) <= 1

\* C6 as amended: every call of a facade method other than isWorkingDirClean
\* issues at most one subprocess over its whole lifetime; a call of
\* isWorkingDirClean issues at most two, and no call ever has more than one
\* subprocess in flight.
C6_AtMostOneInFlight ==
    \A c \in CallIds :
        /\ calls[c].method # "isWorkingDirClean" => Len(procs[c]) <= 1
        /\ calls[c].method = "isWorkingDirClean" => Len(procs[c]) <= 2
        /\ Cardinality(Running(c)) <= 1

\* a settled single-command call beside an isWorkingDirClean call whose
\* second subprocess runs
C6_Witness ==
    \E c, d \in CallIds :
        /\ calls[c].method \in NonProbes
        /\ calls[c].promise.state = "rejected"
        /\ Len(procs[c]) = 1
        /\ calls[d].method = "isWorkingDirClean"
        /\ Len(procs[d]) = 2
        /\ Running(d) = {2}

\* C7: isWorkingDirClean spawns `git diff --quiet` first and
\* `git diff --cached --quiet` only after the first subprocess has exited;
\* the two are never in flight together, and every call that settles has
\* spawned exactly these two, also when the first probe answered false.
C7_ProbesOneAfterTheOther ==
    \A c \in CallIds :
        calls[c].method = "isWorkingDirClean" =>
            /\ Len(procs[c]) \in {1, 2}
            /\ procs[c][1].cmd = CMD_DIFF_QUIET
            /\ Len(procs[c]) = 2 =>
                    /\ procs[c][2].cmd = CMD_DIFF_CACHED_QUIET
                    /\ ~procs[c][1].running
            /\ ~procs[c][1].running => Len(procs[c]) = 2
            /\ Cardinality(Running(c)) <= 1
            /\ calls[c].promise.state # "pending" =>
                    (Len(procs[c]) = 2 /\ Running(c) = {})

\* the unstaged probe failed and the staged probe was spawned all the same
C7_Witness ==
    \E c \in CallIds :
        /\ calls[c].method = "isWorkingDirClean"
        /\ ~procs[c][1].error.null
        /\ Len(procs[c]) = 2
        /\ procs[c][2].cmd = CMD_DIFF_CACHED_QUIET
        /\ calls[c].promise.state = "resolved"

C10_Remote(a) ==
    IF a[1].k = "str" THEN a[1].s ELSE LIT_ORIGIN

C10_Branch(a) ==
    IF a[1].k = "arr" \/ a[2].k # "str" THEN << >> ELSE a[2].s

C10_Flags(a) ==
    IF a[1].k = "arr" THEN a[1].a
    ELSE IF a[2].k = "arr" THEN a[2].a
    ELSE IF a[3].k = "arr" THEN a[3].a
    ELSE IF a[3].k = "str" /\ a[3].s # << >> THEN << a[3].s >>
    ELSE << >>

\* every flag followed by one space
RECURSIVE EachThenSpace(_)
EachThenSpace(l) ==
    IF l = << >> THEN << >> ELSE l[1] \o << " " >> \o EachThenSpace(Tail(l))

\* C10: push builds "git push " + the flags, each followed by one space, +
\* the remote + (" " + branch when a branch is present).  A flag list as
\* first argument is the flag set, with remote "origin" and no branch; else
\* the first argument (default "origin") is the remote, and a flag list as
\* second argument is the flag set with no branch; else the second argument
\* is the branch and the third supplies the flags.
C10_PushInvocation ==
    \A c \in CallIds :
        calls[c].method = "push" =>
            LET a == calls[c].args
            IN  procs[c][1].cmd =
                    << "g", "i", "t", " ", "p", "u", "s", "h", " " >>
                        \o EachThenSpace(C10_Flags(a))
                        \o C10_Remote(a)
                        \o (IF C10_Branch(a) # << >>
                            THEN << " " >> \o C10_Branch(a)
                            ELSE << >>)

\* push(flags, branch, moreFlags): the list in first position is the whole
\* flag set, the second and third argument are ignored
C10_Witness ==
    \E c \in CallIds :
        /\ calls[c].method = "push"
        /\ calls[c].args[1].k = "arr" /\ Len(calls[c].args[1].a) = MaxList
        /\ calls[c].args[2].k = "str" /\ calls[c].args[2].s # << >>
        /\ calls[c].args[3].k = "arr" /\ calls[c].args[3].a # << >>
        /\ procs[c][1].cmd = PRE_PUSH \o EachThenSpace(calls[c].args[1].a) \o LIT_ORIGIN

\* the number of double quotes among the first n characters of m
QuotesBefore(m, n) == Cardinality({i \in 1 .. n : m[i] = "\""})

\* e renders m: each double quote of m stands in e as backslash, double
\* quote, and every other character of m stands in e unchanged, in order
Renders(e, m) ==
    /\ Len(e) = Len(m) + QuotesBefore(m, Len(m))
    /\ \A i \in 1 .. Len(m) :
            LET at == i + QuotesBefore(m, i - 1)
            IN  IF m[i] = "\""
                THEN e[at] = "\\" /\ e[at + 1] = "\""
                ELSE e[at] = m[i]

\* C11: for a commit message that contains double quotes, the invocation is
\* `git commit -m`, a space, an opening double quote, the message with each
\* double quote rendered as backslash double-quote and every other character
\* unchanged and in place, and a closing double quote (the flags follow).
C11_CommitEscapesQuotes ==
    \A c \in CallIds :
        (calls[c].method = "commit" /\ Contains(calls[c].args[1].s, << "\"" >>)) =>
            LET m == calls[c].args[1].s
                cmd == procs[c][1].cmd
                open == << "g", "i", "t", " ", "c", "o", "m", "m", "i", "t", " ",
                           "-", "m", " ", "\"" >>
                n == Len(m) + QuotesBefore(m, Len(m))
            IN  /\ Len(cmd) >= Len(open) + n + 1
                /\ SubSeq(cmd, 1, Len(open)) = open
                /\ Renders(SubSeq(cmd, Len(open) + 1, Len(open) + n), m)
                /\ cmd[Len(open) + n + 1] = "\""
                /\ Len(cmd) > Len(open) + n + 1 => cmd[Len(open) + n + 2] = " "

\* a commit whose message holds two double quotes around a letter
C11_Witness ==
    \E c \in CallIds :
        /\ calls[c].method = "commit"
        /\ calls[c].args[1].s = << "\"", "x", "\"" >>
        /\ procs[c][1].cmd = PRE_COMMIT \o << "\\", "\"", "x", "\\", "\"", "\"" >>

\* the invocation a method composes first from the arguments a
InvocationOf(m, a) ==
    CASE m = "commit" -> commitCmd(a[1], a[2])
      [] m = "push" -> pushCmd(a[1], a[2], a[3])
      [] m = "tag" -> tagCmd(a[1], a[2])
      [] m = "merge" -> mergeCmd(a[1], a[2])
      [] m = "checkout" -> checkoutCmd(a[1], a[2])
      [] m = "branch" -> branchCmd(a[1], a[2])
      [] m = "add" -> addCmd(a[1])
      [] m = "restore" -> restoreCmd(a[1], a[2])
      [] m = "reset" -> resetCmd(a[1], a[2])
      [] m = "clone" -> cloneCmd(a[1], a[2])
      [] m = "setUserName" -> setUserNameCmd(a[1])
      [] m = "setUserEmail" -> setUserEmailCmd(a[1])
      [] m = "getUserName" -> CMD_GET_USER_NAME
      [] m = "getUserEmail" -> CMD_GET_USER_EMAIL
      [] m = "hasNoUnstagedChanges" -> CMD_DIFF_QUIET
      [] m = "hasNoStagedChanges" -> CMD_DIFF_CACHED_QUIET
      [] m = "isWorkingDirClean" -> CMD_DIFF_QUIET
      [] m = "hasUpstreamBranch" -> CMD_UPSTREAM
      [] m = "getCurrentBranchName" -> CMD_CURRENT_BRANCH
      [] m = "getDefaultBranchName" -> CMD_BRANCH_R
      [] m = "init" -> CMD_INIT

\* the methods that take a flag or a flag list, and where they take it
FlagTaking == {"commit", "push", "tag", "merge", "checkout", "branch"}
FlagsAt(m) == IF m = "push" THEN 3 ELSE 2

\* C12: for commit, push, tag, merge, checkout and branch, a call that passes
\* the single flag f spawns the invocation that the one-element list [f]
\* gives with the same other arguments, and a call that passes [f] spawns the
\* invocation that the single flag f gives.
C12_SingleFlagAsOneElementList ==
    \A c \in CallIds :
        calls[c].method \in FlagTaking =>
            LET m == calls[c].method
                a == calls[c].args
                fl == a[FlagsAt(m)]
            IN  /\ (fl.k = "str" /\ fl.s # << >>) =>
                        procs[c][1].cmd =
                            InvocationOf(m, [a EXCEPT ![FlagsAt(m)] = Arr(<< fl.s >>)])
                /\ (fl.k = "arr" /\ Len(fl.a) = 1) =>
                        procs[c][1].cmd =
                            InvocationOf(m, [a EXCEPT ![FlagsAt(m)] = Str(fl.a[1])])

\* tag called with a single flag and a value
C12_Witness ==
    \E c \in CallIds :
        /\ calls[c].method = "tag"
        /\ calls[c].args[1] = Str(X)
        /\ calls[c].args[2] = Str(F)
        /\ procs[c][1].cmd = << "g", "i", "t", " ", "t", "a", "g", " ", "-", "f", " ", "x" >>

\* the text before the flags in the invocations of tag, merge, checkout, branch
C13_Base(m) ==
    CASE m = "tag" -> << "g", "i", "t", " ", "t", "a", "g", " " >>
      [] m = "merge" -> << "g", "i", "t", " ", "m", "e", "r", "g", "e", " " >>
      [] m = "checkout" ->
            << "g", "i", "t", " ", "c", "h", "e", "c", "k", "o", "u", "t", " " >>
      [] m = "branch" -> << "g", "i", "t", " ", "b", "r", "a", "n", "c", "h", " " >>

\* C13: for tag, merge, checkout and branch with a non-empty flag list and a
\* target name, the invocation is the base command, the flags in the caller's
\* order separated by single spaces, and the target as the last token.
C13_FlagsInOrderBeforeTarget ==
    \A c \in CallIds :
        (/\ calls[c].method \in {"tag", "merge", "checkout", "branch"}
         /\ calls[c].args[1].k = "str" /\ calls[c].args[1].s # << >>
         /\ calls[c].args[2].k = "arr" /\ calls[c].args[2].a # << >>)
        => procs[c][1].cmd =
                C13_Base(calls[c].method)
                    \o EachThenSpace(calls[c].args[2].a)
                    \o calls[c].args[1].s

\* branch called with two different flags and a name
C13_Witness ==
    \E c \in CallIds :
        /\ calls[c].method = "branch"
        /\ calls[c].args[1] = Str(X)
        /\ calls[c].args[2] = Arr(<< F, X >>)
        /\ procs[c][1].cmd = LIT_GIT_BRANCH \o << " ", "-", "f", " ", "x", " ", "x" >>

\* C14: add() spawns the invocation of add("."), and restore() with or
\* without a flag spawns the invocation of restore(".") with the same flag.
C14_OmittedPathIsDot ==
    \A c \in CallIds :
        (calls[c].method \in {"add", "restore"} /\ calls[c].args[1].k = "undef") =>
            /\ procs[c][1].cmd =
                    InvocationOf(calls[c].method,
                                 [calls[c].args EXCEPT ![1] = Str(<< "." >>)])
            /\ Contains(procs[c][1].cmd, << " ", "." >>)

\* add() with no argument
C14_Witness ==
    \E c \in CallIds :
        /\ calls[c].method = "add"
        /\ calls[c].args[1].k = "undef"
        /\ procs[c][1].cmd = << "g", "i", "t", " ", "a", "d", "d", " ", ".", " " >>

\* the values of l in order, separated by single spaces
SpaceSeparated(l) ==
    IF l = << >> THEN << >>
    ELSE SubSeq(EachThenSpace(l), 1, Len(EachThenSpace(l)) - 1)

\* the paths a call of add or restore names, as the caller passed them
C15_Paths(path) ==
    CASE path.k = "arr" -> SpaceSeparated(path.a)
      [] path.k = "str" -> path.s
      [] OTHER -> << "." >>

\* C15: the invocation of add is `git add `, the paths in the caller's order
\* separated by single spaces (a single text verbatim), and one trailing
\* space; the invocation of restore ends with a space and the targets in the
\* caller's order separated by single spaces.
C15_PathsInOrder ==
    \A c \in CallIds :
        /\ calls[c].method = "add" =>
                procs[c][1].cmd =
                    << "g", "i", "t", " ", "a", "d", "d", " " >>
                        \o C15_Paths(calls[c].args[1]) \o << " " >>
        /\ calls[c].method = "restore" =>
                LET cmd == procs[c][1].cmd
                    tail == << " " >> \o C15_Paths(calls[c].args[1])
                IN  /\ Len(cmd) >= Len(tail)
                    /\ SubSeq(cmd, Len(cmd) - Len(tail) + 1, Len(cmd)) = tail

\* restore of two different targets with a flag
C15_Witness ==
    \E c \in CallIds :
        /\ calls[c].method = "restore"
        /\ calls[c].args[1] = Arr(<< F, X >>)
        /\ calls[c].args[2] = Str(F)
        /\ procs[c][1].cmd = LIT_GIT_RESTORE \o << " ", "-", "f", " ", "-", "f", " ", "x" >>

Marker == << "o", "r", "i", "g", "i", "n", "/", "H", "E", "A", "D" >>
MarkerPrefix == Marker \o << " ", "-", ">", " ", "o", "r", "i", "g", "i", "n", "/" >>

\* s[i .. j] is a whole line of s
IsLine(s, i, j) ==
    /\ i <= j + 1
    /\ \A k \in i .. j : s[k] # "\n"
    /\ i = 1 \/ s[i - 1] = "\n"
    /\ j = Len(s) \/ s[j + 1] = "\n"

\* r is the line l without the first occurrence of the prefix (if it has one)
\* and without surrounding whitespace
IsNameOf(r, l) ==
    IF Contains(l, MarkerPrefix)
    THEN \E n \in 0 .. Len(l) :
            /\ n + Len(MarkerPrefix) <= Len(l)
            /\ SubSeq(l, n + 1, n + Len(MarkerPrefix)) = MarkerPrefix
            /\ ~Contains(SubSeq(l, 1, n + Len(MarkerPrefix) - 1), MarkerPrefix)
            /\ IsStripped(r, SubSeq(l, 1, n)
                                \o SubSeq(l, n + Len(MarkerPrefix) + 1, Len(l)))
    ELSE IsStripped(r, l)

\* C17: when the listing command succeeds, getDefaultBranchName resolves; if
\* some line of the listing contains the marker `origin/HEAD`, to the first
\* such line with the prefix `origin/HEAD -> origin/` and the surrounding
\* whitespace stripped, and if no line contains it (an empty listing
\* included), to "main".
C17_DefaultBranchInference ==
    \A c \in CallIds :
        (/\ calls[c].method = "getDefaultBranchName"
         /\ ~procs[c][1].running
         /\ procs[c][1].error.null)
        => LET s == procs[c][1].stdout
               r == calls[c].promise.value
           IN  /\ calls[c].promise.state = "resolved"
               /\ r.k = "text"
               /\ ~Contains(s, Marker) => r.text = << "m", "a", "i", "n" >>
               /\ Contains(s, Marker) =>
                    \E i \in 1 .. Len(s) : \E j \in i .. Len(s) :
                        /\ IsLine(s, i, j)
                        /\ Contains(SubSeq(s, i, j), Marker)
                        /\ ~Contains(SubSeq(s, 1, i - 1), Marker)
                        /\ IsNameOf(r.text, SubSeq(s, i, j))

\* a listing whose second line is the HEAD pointer of branch a
C17_Witness ==
    \E c \in CallIds :
        /\ calls[c].method = "getDefaultBranchName"
        /\ procs[c][1].stdout = << "a", "\n" >> \o MarkerPrefix \o << "a" >>
        /\ calls[c].promise = Resolved(Text(<< "a" >>))

\* the working directory the constructor's argument asks for; an empty
\* string counts as none given
C18_Configured ==
    IF options.cwd.k = "str" /\ options.cwd.s # << >> THEN options.cwd.s ELSE ProcessCwd

\* C18: after any sequence of successful and failed calls the instance's
\* working directory is the one fixed at construction (the given cwd, or the
\* process's current directory when none is given), and every subprocess of
\* the instance was spawned with exactly that directory.
C18_CwdFixedAtConstruction ==
    constructed =>
        /\ cwd = C18_Configured
        /\ \A cn \in Spawned : Proc(cn).cwd = C18_Configured

\* an instance configured with a repository path, after a failed and a
\* successful call
C18_Witness ==
    /\ options = Options(Str(RepoPath))
    /\ \E c, d \in CallIds :
            /\ calls[c].promise.state = "rejected"
            /\ calls[d].promise.state = "resolved"
            /\ procs[c][1].cwd = << "/", "r" >>
            /\ procs[d][1].cwd = << "/", "r" >>

\* C19: `new Git()` with no options argument succeeds and yields an instance
\* whose working directory is the process's current directory.
C19_NoOptionsConstructs ==
    options = NoOptions => (constructed /\ cwd = ProcessCwd)

\* what the promise of a settled call must be, read off that call's own
\* subprocesses only
C20_OwnOutcome(c) ==
    LET m == calls[c].method
        p == procs[c][1]
        st == calls[c].promise.state
        v == calls[c].promise.value
    IN  IF m = "isWorkingDirClean"
        THEN /\ Len(procs[c]) = 2
             /\ st = "resolved"
             /\ v = Bool(p.error.null /\ procs[c][2].error.null)
        ELSE /\ Len(procs[c]) = 1
             /\ IF m \in Probes
                THEN st = "resolved" /\ v = Bool(p.error.null)
                ELSE IF ~p.error.null
                THEN /\ st = "rejected"
                     /\ v = Err(LIT_ERROR_PREFIX \o p.cmd \o << "\n" >> \o p.stderr)
                ELSE /\ st = "resolved"
                     /\ m \in SelfReturning => v = This
                     /\ m \in TextReturning => v.k = "text" /\ IsStripped(v.text, p.stdout)
                     /\ m = "getDefaultBranchName" => v.k = "text"

\* every call is tied to its own subprocesses: it spawned its own command, it
\* is pending exactly while a subprocess of its own runs, and once settled it
\* carries the outcome of its own subprocesses
C20_EachCallItsOwn ==
    \A c \in CallIds :
        calls[c].promise.state # "idle" =>
            /\ procs[c][1].cmd = InvocationOf(calls[c].method, calls[c].args)
            /\ (calls[c].promise.state = "pending") <=> (Running(c) # {})
            /\ calls[c].promise.state # "pending" => C20_OwnOutcome(c)

\* a step belongs to one call: it leaves every other call and the
\* subprocesses of every other call as they are
C20_StepOfOneCall ==
    \E c \in CallIds :
        \A d \in CallIds \ {c} : calls'[d] = calls[d] /\ procs'[d] = procs[d]

\* C20: calls in flight at the same time on one instance do not interfere:
\* under every interleaving each call settles with the outcome of its own
\* subprocess only, no outcome is swapped, lost or duplicated, and no call
\* changes what another spawns.
C20_NoInterference ==
    /\ [] C20_EachCallItsOwn
    /\ [][C20_StepOfOneCall]_vars

\* isWorkingDirClean, past its failed first probe, in flight together with a
\* call of another method
C20_Witness ==
    \E c, d \in CallIds :
        /\ c # d
        /\ calls[c].method = "isWorkingDirClean"
        /\ Len(procs[c]) = 2
        /\ ~procs[c][1].error.null
        /\ procs[c][2].running
        /\ calls[d].method = "getUserName"
        /\ calls[d].promise.state = "pending"
        /\ procs[d][1].running

\* the call of slot c has settled
Settled(c) == calls[c].promise.state \in {"resolved", "rejected"}

\* what a step may do to the call of slot c: it leaves pending only when the
\* subprocess it waits for exits, a running subprocess is neither replaced
\* nor joined by another one, and a settled call never changes again
C21_StepOfCall(c) ==
    LET n == Len(procs[c])
        pending == calls[c].promise.state = "pending"
    IN  /\ (pending /\ calls'[c].promise.state # "pending") =>
                /\ procs[c][n].running
                /\ ~procs'[c][n].running
                /\ Settled(c)'
        /\ (pending /\ procs'[c][n].running) => procs'[c] = procs[c] /\ calls'[c] = calls[c]
        /\ \A i \in 1 .. n : ~procs[c][i].running => procs'[c][i] = procs[c][i]
        /\ Settled(c) => calls'[c] = calls[c] /\ procs'[c] = procs[c]

\* C21: a call settles only at its subprocess's exit and exactly once: while
\* the subprocess has not exited the call stays pending (nothing else settles
\* or re-spawns it), a pending call always has a subprocess it waits for, and
\* when its subprocesses exit the call settles, resolved or rejected, for good.
C21_SettlesAtExitOnce ==
    /\ [][\A c \in CallIds : C21_StepOfCall(c)]_vars
    /\ [](\A c \in CallIds : calls[c].promise.state = "pending" => Running(c) # {})
    /\ \A c \in CallIds : (calls[c].promise.state = "pending") ~> Settled(c)

\* a call rejected at the exit of its subprocess
C21_Witness ==
    /\ calls[1].method = "getUserName"
    /\ calls[1].promise.state = "rejected"
    /\ Len(procs[1]) = 1
    /\ ~procs[1][1].running
    /\ ~procs[1][1].error.null

\* the text 'git config --global user.name "'
C22_NameOpening ==
    << "g", "i", "t", " ", "c", "o", "n", "f", "i", "g", " ", "-", "-",
       "g", "l", "o", "b", "a", "l", " ", "u", "s", "e", "r", ".", "n",
       "a", "m", "e", " ", "\"" >>

\* the text 'git config --global user.email "'
C22_EmailOpening ==
    << "g", "i", "t", " ", "c", "o", "n", "f", "i", "g", " ", "-", "-",
       "g", "l", "o", "b", "a", "l", " ", "u", "s", "e", "r", ".", "e",
       "m", "a", "i", "l", " ", "\"" >>

\* C22: setUserName(name) issues exactly 'git config --global user.name
\* "<name>" ' (closing quote, then one space) and setUserEmail(email) issues
\* exactly 'git config --global user.email "<email>"', each as a single
\* subprocess in the instance's working directory, with the value placed
\* verbatim between the quotes.
C22_ConfigInvocations ==
    \A c \in CallIds :
        /\ calls[c].method = "setUserName" =>
                /\ Len(procs[c]) = 1
                /\ procs[c][1].cwd = cwd
                /\ procs[c][1].cmd =
                        C22_NameOpening \o calls[c].args[1].s \o << "\"", " " >>
        /\ calls[c].method = "setUserEmail" =>
                /\ Len(procs[c]) = 1
                /\ procs[c][1].cwd = cwd
                /\ procs[c][1].cmd =
                        C22_EmailOpening \o calls[c].args[1].s \o << "\"" >>

\* setUserName with a three-character value has run to its end
C22_Witness ==
    /\ calls[1].method = "setUserName"
    /\ Len(calls[1].args[1].s) = 3
    /\ calls[1].promise.state = "resolved"
    /\ procs[1][1].cmd[Len(procs[1][1].cmd)] = " "

\* the text 'git commit -m "'
C23_Opening ==
    << "g", "i", "t", " ", "c", "o", "m", "m", "i", "t", " ", "-", "m",
       " ", "\"" >>

\* the flags a caller passed to commit, as a list: a list as it is, a single
\* flag as a list of one
C23_Flags(f) == IF f.k = "arr" THEN f.a ELSE << f.s >>

\* C23: commit appends its flags after the quoted message: with flags the
\* invocation is 'git commit -m "<escaped message>"', one space, and the flags
\* joined by single spaces in the caller's order; with the flags omitted the
\* invocation ends at the closing quote of the message.
C23_CommitFlagsAfterMessage ==
    \A c \in CallIds :
        calls[c].method = "commit" =>
            LET cmd == procs[c][1].cmd
                m == calls[c].args[1].s
                f == calls[c].args[2]
                n == Len(m) + QuotesBefore(m, Len(m))
                k == Len(C23_Opening)
                rest == SubSeq(cmd, k + n + 1, Len(cmd))
            IN  /\ Len(cmd) > k + n
                /\ SubSeq(cmd, 1, k) = C23_Opening
                /\ Renders(SubSeq(cmd, k + 1, k + n), m)
                /\ f.k = "undef" => rest = << "\"" >>
                /\ (f.k = "arr" /\ f.a # << >>) \/ (f.k = "str" /\ f.s # << >>) =>
                        rest = << "\"", " " >> \o SpaceSeparated(C23_Flags(f))

\* commit with a message and a list of two different flags
C23_Witness ==
    /\ calls[1].method = "commit"
    /\ calls[1].args[1].s # << >>
    /\ calls[1].args[2].k = "arr"
    /\ Len(calls[1].args[2].a) = 2
    /\ calls[1].args[2].a[1] # calls[1].args[2].a[2]
    /\ calls[1].promise.state = "resolved"

\* the text 'git branch'
C24_GitBranch == << "g", "i", "t", " ", "b", "r", "a", "n", "c", "h" >>

\* s has no leading, trailing or doubled space
C24_SingleSpaced(s) ==
    /\ s # << >> => s[1] # " " /\ s[Len(s)] # " "
    /\ \A i \in 1 .. Len(s) - 1 : ~(s[i] = " " /\ s[i + 1] = " ")

\* C24: branch treats both of its arguments as optional: branch() issues
\* exactly 'git branch', branch(name) issues 'git branch <name>',
\* branch(undefined, flags) issues 'git branch <flags>' with no name token,
\* and in every case the invocation has no leading, trailing or doubled space.
C24_BranchArgumentsOptional ==
    \A c \in CallIds :
        calls[c].method = "branch" =>
            LET cmd == procs[c][1].cmd
                name == calls[c].args[1]
                flags == calls[c].args[2]
                someFlags == (flags.k = "arr" /\ flags.a # << >>)
                                \/ (flags.k = "str" /\ flags.s # << >>)
            IN  /\ (name.k = "undef" /\ flags.k = "undef") => cmd = C24_GitBranch
                /\ (name.k = "str" /\ name.s # << >> /\ flags.k = "undef") =>
                        cmd = C24_GitBranch \o << " " >> \o name.s
                /\ (name.k = "undef" /\ someFlags) =>
                        cmd = C24_GitBranch \o << " " >> \o SpaceSeparated(C23_Flags(flags))
                /\ C24_SingleSpaced(cmd)

\* branch called with no name and a list of two flags
C24_Witness ==
    /\ calls[1].method = "branch"
    /\ calls[1].args[1].k = "undef"
    /\ calls[1].args[2].k = "arr"
    /\ Len(calls[1].args[2].a) = 2
    /\ calls[1].promise.state = "resolved"

\* C25: for tag, merge, checkout and commit, a call that passes an empty flag
\* list spawns exactly the invocation that the same call with the flags
\* omitted spawns: zero flags add neither a space nor an empty token.
C25_EmptyFlagListAsOmitted ==
    \A c \in CallIds :
        (/\ calls[c].method \in {"tag", "merge", "checkout", "commit"}
         /\ calls[c].args[2] = Arr(<< >>)) =>
            procs[c][1].cmd =
                InvocationOf(calls[c].method, [calls[c].args EXCEPT ![2] = Undef])

\* the number of consecutive backslashes that stand right before position i of s
RECURSIVE BackslashesBefore(_, _)
BackslashesBefore(s, i) ==
    IF i > 1 /\ s[i - 1] = "\\" THEN 1 + BackslashesBefore(s, i - 1) ELSE 0

\* C26: for every commit message over an alphabet with the double quote and
\* the backslash, every double quote of the invocation that comes from the
\* message is preceded by an odd number of consecutive backslashes and the
\* closing outer quote by an even number, so the only unescaped double quotes
\* of the invocation are the two outer ones.
C26_CommitQuotingUnbreakable ==
    \A c \in CallIds :
        calls[c].method = "commit" =>
            LET cmd == procs[c][1].cmd
                m == calls[c].args[1].s
                k == Len(C23_Opening)
                n == Len(m) + QuotesBefore(m, Len(m))
            IN  /\ \A i \in k + 1 .. k + n :
                        cmd[i] = "\"" => BackslashesBefore(cmd, i) % 2 = 1
                /\ cmd[k + n + 1] = "\""
                /\ BackslashesBefore(cmd, k + n + 1) % 2 = 0

\* the arrow of a symbolic reference line
C27_Arrow == << " ", "-", ">", " " >>

\* C27: whenever the listing contains a line with the marker `origin/HEAD`,
\* the name getDefaultBranchName resolves to is a bare branch name: it contains
\* neither the marker nor the arrow ` -> `, whatever else the listing holds.
C27_BareBranchName ==
    \A c \in CallIds :
        (/\ calls[c].method = "getDefaultBranchName"
         /\ calls[c].promise.state = "resolved"
         /\ Contains(procs[c][1].stdout, Marker))
        => /\ ~Contains(calls[c].promise.value.text, Marker)
           /\ ~Contains(calls[c].promise.value.text, C27_Arrow)

\* C28: in a chain of self-returning calls, each made on the instance the
\* previous one yielded, the subprocess of a step is spawned only after the
\* subprocess of the step before it has exited successfully; when a step
\* fails no later step spawns a subprocess and the chain settles with that
\* step's rejection.
C28_ChainStepsInSequence ==
    \A c \in CallIds :
        calls[c].pc \in {"then", "chained"} =>
            /\ \A n \in 2 .. Len(procs[c]) :
                    ~procs[c][n - 1].running /\ procs[c][n - 1].error.null
            /\ \A n \in 1 .. Len(procs[c]) :
                    (~procs[c][n].running /\ ~procs[c][n].error.null) =>
                        /\ n = Len(procs[c])
                        /\ calls[c].promise =
                                Rejected(Err(LIT_ERROR_PREFIX \o procs[c][n].cmd
                                                \o << "\n" >> \o procs[c][n].stderr))
            /\ calls[c].promise.state = "resolved" =>
                    /\ calls[c].rest = << >>
                    /\ calls[c].promise.value = This
                    /\ \A n \in 1 .. Len(procs[c]) :
                            ~procs[c][n].running /\ procs[c][n].error.null

\* a chain of three calls whose second step failed: the third was not spawned
C28_Witness ==
    /\ calls[1].pc = "chained"
    /\ Len(procs[1]) = 2
    /\ procs[1][1].error.null
    /\ ~procs[1][2].error.null
    /\ Len(calls[1].rest) = 1
    /\ calls[1].promise.state = "rejected"

\* the text 'Error executing command: '
C29_Diagnostic ==
    << "E", "r", "r", "o", "r", " ", "e", "x", "e", "c", "u", "t", "i",
       "n", "g", " ", "c", "o", "m", "m", "a", "n", "d", ":", " " >>

\* C29: the executor's outcome is decided by the runner's error value alone:
\* a run with no error resolves even when stderr is non-empty, a run with an
\* error rejects even when stdout is non-empty, and the rejection message is
\* exactly 'Error executing command: ', the invocation, a newline and stderr,
\* with nothing of the runner's error object in it.
C29_OutcomeByErrorAlone ==
    \A cn \in Exited :
        LET p == Proc(cn)
        IN  IF p.error.null
            THEN /\ p.promise.state = "resolved"
                 /\ p.promise.value.k = "text"
                 /\ IsStripped(p.promise.value.text, p.stdout)
            ELSE /\ p.promise.state = "rejected"
                 /\ p.promise.value.k = "error"
                 /\ p.promise.value.text =
                        C29_Diagnostic \o p.cmd \o << "\n" >> \o p.stderr

\* a run that failed although it wrote to standard output
C29_Witness ==
    \E cn \in Exited :
        /\ ~Proc(cn).error.null
        /\ Proc(cn).stdout # << >>
        /\ Proc(cn).stderr # << >>
        /\ Proc(cn).promise.state = "rejected"
        /\ calls[cn[1]].promise.state = "rejected"

\* the position of the last double quote of s (0 when it has none)
C30_LastQuote(s) ==
    LET at == {i \in 1 .. Len(s) : s[i] = "\""}
    IN  IF at = {} THEN 0 ELSE CHOOSE i \in at : \A j \in at : j <= i

\* C30: setUserName and setUserEmail quote their value as safely as commit
\* quotes its message: every double quote of the invocation that comes from
\* the value, that is every one between the opening and the closing outer
\* quote, is preceded by an odd number of backslashes.
C30_ConfigValueQuotesEscaped ==
    \A c \in CallIds :
        calls[c].method \in {"setUserName", "setUserEmail"} =>
            LET cmd == procs[c][1].cmd
                k == IF calls[c].method = "setUserName"
                     THEN Len(C22_NameOpening) ELSE Len(C22_EmailOpening)
            IN  \A i \in k + 1 .. C30_LastQuote(cmd) - 1 :
                    cmd[i] = "\"" => BackslashesBefore(cmd, i) % 2 = 1

=============================================================================
